---- MODULE Spec2Model ----
(***************************************************************************)
(* GPUStatsMonitor (pytorch_lightning/callbacks/gpu_stats_monitor.py).     *)
(*                                                                         *)
(* The callback is modelled on the rank-zero process (the batch hooks are  *)
(* rank_zero_only).  A text is a sequence of one-character strings, so     *)
(* that strip / split / float are computed as Python computes them.        *)
(* Python's None is the integer None below; timestamps are naturals and    *)
(* durations are reported in milliseconds (seconds * 1000).                *)
(***************************************************************************)
EXTENDS Integers, Sequences, FiniteSets, TLC

\* ------------------------------------------------------------------ bounds
MaxTime == 3        \* largest value time.time() returns
MaxSteps == 2       \* batches per run (the trainer's max_steps)
MaxEpochs == 2      \* epochs per run (the trainer's max_epochs)
MaxLen == 5         \* longest stdout text of the sampling specification

\* ------------------------------------------------------------ Python values
None == -1

\* bool(x) of an Optional[float]: None and 0.0 are falsy
Truthy(x) == x # None /\ x # 0

FlagNames ==
    {"memory_utilization", "gpu_utilization", "intra_step_time",
     "inter_step_time", "fan_speed", "temperature"}

\* The characters a query's standard output is built from.
Digits == {"1", "2"}
Whitespace == {" ", "\n"}
Chars == Digits \cup Whitespace \cup {"x"}

linesep == "\n"

DigitVal(c) == CASE c = "1" -> 1 [] c = "2" -> 2 [] OTHER -> 0

\* ------------------------------------------------------------ text helpers
RECURSIVE lstrip(_)
lstrip(s) ==
    IF s # <<>> /\ Head(s) \in Whitespace THEN lstrip(Tail(s)) ELSE s

RECURSIVE rstrip(_)
rstrip(s) ==
    IF s # <<>> /\ s[Len(s)] \in Whitespace
    THEN rstrip(SubSeq(s, 1, Len(s) - 1))
    ELSE s

\* str.strip()
strip(s) == rstrip(lstrip(s))

\* str.split(sep) for a one-character separator: empty pieces are kept
RECURSIVE split(_, _)
split(s, sep) ==
    IF \E i \in 1..Len(s) : s[i] = sep
    THEN LET i == CHOOSE j \in 1..Len(s) :
                      s[j] = sep /\ \A k \in 1..(j - 1) : s[k] # sep
         IN  <<SubSeq(s, 1, i - 1)>> \o split(SubSeq(s, i + 1, Len(s)), sep)
    ELSE <<s>>

\* float(x) raises ValueError unless x, stripped, is a non-empty run of digits
IsFloat(x) ==
    LET t == strip(x)
    IN  t # <<>> /\ \A i \in 1..Len(t) : t[i] \in Digits

RECURSIVE DecimalVal(_)
DecimalVal(t) ==
    IF t = <<>> THEN 0
    ELSE 10 * DecimalVal(SubSeq(t, 1, Len(t) - 1)) + DigitVal(t[Len(t)])

float(x) == DecimalVal(strip(x))

\* A faulty gpu_usage: a line that does not parse is skipped, not fatal.
gpu_usage_drops_bad(stdout) ==
    LET lines == split(strip(stdout), linesep)
        good == SelectSeq(lines, IsFloat)
    IN  IF good = <<>> THEN <<0>>
        ELSE [i \in 1..Len(good) |-> float(good[i])]

\* the list gpu_usage of _get_gpu_stat, with the ValueError fallback
gpu_usage(stdout) ==
    LET lines == split(strip(stdout), linesep)
    IN  IF \A i \in 1..Len(lines) : IsFloat(lines[i])
        THEN [i \in 1..Len(lines) |-> float(lines[i])]
        ELSE <<0>>

\* A faulty StatName: devices are numbered from one.
StatNameFromOne(pitem, index, unit) ==
    "gpu_" \o pitem \o "/gpu_id_" \o ToString(index + 1) \o " (" \o unit \o ")"

\* f"gpu_{pitem}/gpu_id_{index} ({unit})"
StatName(pitem, index, unit) ==
    "gpu_" \o pitem \o "/gpu_id_" \o ToString(index) \o " (" \o unit \o ")"

\* the dict comprehension over enumerate(gpu_usage)
StatDict(pitem, unit, usage) ==
    LET names == {StatName(pitem, i - 1, unit) : i \in 1..Len(usage)}
    IN  [n \in names |->
            usage[CHOOSE i \in 1..Len(usage) :
                      StatName(pitem, i - 1, unit) = n
                      /\ \A j \in (i + 1)..Len(usage) :
                             StatName(pitem, j - 1, unit) # n]]

\* subprocess.run(..., check=True) either raises or returns the stdout text.
RunOk(text) == [raised |-> FALSE, exc |-> "none", stdout |-> text]
RunFails(how) == [raised |-> TRUE, exc |-> how, stdout |-> <<>>]

\* A faulty _get_gpu_stat: a failed run is answered with the zero fallback.
get_gpu_stat_swallows(pitem, unit, run) ==
    [raised |-> FALSE, exc |-> "none",
     value |-> StatDict(pitem, unit,
                        IF run.raised THEN <<0>> ELSE gpu_usage(run.stdout))]

\* _get_gpu_stat(pitem, unit): run is the outcome of subprocess.run
_get_gpu_stat(pitem, unit, run) ==
    IF run.raised
    THEN [raised |-> TRUE, exc |-> run.exc, value |-> <<>>]
    ELSE [raised |-> FALSE, exc |-> "none",
          value |-> StatDict(pitem, unit, gpu_usage(run.stdout))]

\* --------------------------------------------------------------- the state
VARIABLES
    pc,                     \* where the host training loop stands
    exc,                    \* the exception that ended the run, or "none"
    tool_present,           \* shutil.which("nvidia-smi") is not None
    logger_present,         \* bool(trainer.logger)
    args,                   \* the six constructor arguments
    log_stats,              \* self._log_stats
    snap_intra_step_time,   \* self.snap_intra_step_time
    snap_inter_step_time,   \* self.snap_inter_step_time
    clock,                  \* the last value time.time() returned
    global_step,            \* trainer.global_step
    epochs,                 \* epochs started
    steps,                  \* batches completed in the current epoch
    hook,                   \* the hook that ran last
    logged,                 \* the log_metrics calls of the hook that ran last
    queries,                \* the subprocess.run calls of the hook that ran last
    nlogged,                \* log_metrics calls of the current epoch
    nintra,                 \* intra-step records of the current epoch
    ninter,                 \* inter-step records of the current epoch
    last_step,              \* the step of the last log_metrics call, if any
    writes,                 \* assignments to snap_* made by the current step's hooks
    trace,                  \* the hooks that completed last: see Last5 and Last1
    failAt,                 \* the query of the last hook that failed (0: none)
    query,                  \* sampling specification: what the queries meet
    stat                    \* sampling specification: the hook call that met it

vars ==
    <<pc, exc, tool_present, logger_present, args, log_stats,
      snap_intra_step_time, snap_inter_step_time, clock, global_step, epochs,
      steps, hook, logged, queries, nlogged, nintra, ninter, last_step,
      writes, trace, failAt, query, stat>>

monitor == <<log_stats, snap_intra_step_time, snap_inter_step_time>>
sink == <<logged, queries, nlogged, nintra, ninter, last_step>>
sampling == <<query, stat>>

FlagSets == [FlagNames -> BOOLEAN]
NoFlags == [f \in FlagNames |-> FALSE]

\* field -> unit, as the hooks pass them to _get_gpu_stat
Unit(pitem) ==
    CASE pitem \in {"utilization.gpu", "utilization.memory", "fan.speed"} -> "%"
      [] pitem \in {"memory.used", "memory.free"} -> "MB"
      [] OTHER -> "degrees C"

Fields ==
    {"utilization.gpu", "memory.used", "memory.free", "utilization.memory",
     "fan.speed", "temperature.gpu", "temperature.memory"}

\* The texts nvidia-smi answers with inside the hooks: two devices, and an
\* unsupported field.  (The sampling specification draws every text.)
HookResponses ==
    {<<"1", "\n", "2", "\n">>, <<"x">>}

Failures == {"CalledProcessError", "OSError"}

\* What the environment does to the queries of one hook call: every query
\* answers resp, except query number failAt (0: none), which fails as how.
Envs ==
    [resp : HookResponses, failAt : 0..7, how : Failures]

\* ------------------------------------------------------- one call of a hook
\* The running state of a hook call.
Enter(step) ==
    [step |-> step, raised |-> FALSE, exc |-> "none", logged |-> <<>>,
     queries |-> 0, reads |-> <<>>, writes |-> 0,
     intra |-> None, inter |-> None,
     snap_intra |-> snap_intra_step_time, snap_inter |-> snap_inter_step_time]

\* A faulty log_metrics: the batch index of the epoch is passed as the step.
log_metrics_batch_idx(st, metrics) ==
    [st EXCEPT !.logged = Append(@, [metrics |-> metrics, step |-> steps])]

\* trainer.logger.log_metrics(metrics, step=trainer.global_step)
log_metrics(st, metrics) ==
    [st EXCEPT !.logged = Append(@, [metrics |-> metrics, step |-> st.step])]

subprocess_run(st, e) ==
    IF st.queries + 1 = e.failAt THEN RunFails(e.how) ELSE RunOk(e.resp)

\* trainer.logger.log_metrics(self._get_gpu_stat(pitem, unit), step=...)
LogStat(st, pitem, e) ==
    LET r == _get_gpu_stat(pitem, Unit(pitem), subprocess_run(st, e))
    IN  IF r.raised
        THEN [st EXCEPT !.queries = @ + 1, !.raised = TRUE, !.exc = r.exc]
        ELSE log_metrics([st EXCEPT !.queries = @ + 1], r.value)

\* The statements of the batch hooks, in source order.  Each is guarded by
\* one flag of self._log_stats.
Stat(flag, pitem) == [op |-> "stat", flag |-> flag, pitem |-> pitem]
Timing(op, flag) == [op |-> op, flag |-> flag, pitem |-> "none"]

_log_usage(flag) == <<Stat(flag, "utilization.gpu")>>

_log_memory(flag) ==
    <<Stat(flag, "memory.used"), Stat(flag, "memory.free"),
      Stat(flag, "utilization.memory")>>

\* on_train_batch_start: the sampling statements, then the timing statements
BatchStartSampling ==
    _log_usage("gpu_utilization") \o _log_memory("memory_utilization")

BatchStartTiming ==
    <<Timing("log_inter", "inter_step_time"),
      Timing("snap_intra", "intra_step_time")>>

BatchStartCode == BatchStartSampling \o BatchStartTiming

\* on_train_batch_end
BatchEndSampling ==
    _log_usage("gpu_utilization")
    \o _log_memory("memory_utilization")
    \o <<Stat("fan_speed", "fan.speed"),
         Stat("temperature", "temperature.gpu"),
         Stat("temperature", "temperature.memory")>>

BatchEndTiming ==
    <<Timing("snap_inter", "inter_step_time"),
      Timing("log_intra", "intra_step_time")>>

BatchEndCode == BatchEndSampling \o BatchEndTiming

TimingDict(name, value) == [n \in {name} |-> value]

\* if self._log_stats.inter_step_time and self.snap_inter_step_time: log
\* (time.time() - self.snap_inter_step_time) * 1000; now is what time.time()
\* returns
LogInter(st, now) ==
    IF Truthy(st.snap_inter)
    THEN log_metrics(
             [st EXCEPT !.reads = Append(@, now),
                        !.inter = (now - st.snap_inter) * 1000],
             TimingDict("batch_time/inter_step (ms)",
                        (now - st.snap_inter) * 1000))
    ELSE st

\* if self._log_stats.intra_step_time and self.snap_intra_step_time: log
\* (time.time() - self.snap_intra_step_time) * 1000
LogIntra(st, now) ==
    IF Truthy(st.snap_intra)
    THEN log_metrics(
             [st EXCEPT !.reads = Append(@, now),
                        !.intra = (now - st.snap_intra) * 1000],
             TimingDict("batch_time/intra_step (ms)",
                        (now - st.snap_intra) * 1000))
    ELSE st

\* self.snap_intra_step_time = time.time()
SnapIntra(st, now) ==
    [st EXCEPT !.reads = Append(@, now), !.snap_intra = now, !.writes = @ + 1]

\* A faulty SnapInter: the step-end instant is stored in both slots.
SnapInterBothSlots(st, now) ==
    [st EXCEPT !.reads = Append(@, now), !.snap_inter = now,
               !.snap_intra = now, !.writes = @ + 1]

\* self.snap_inter_step_time = time.time()
SnapInter(st, now) ==
    [st EXCEPT !.reads = Append(@, now), !.snap_inter = now, !.writes = @ + 1]

\* A faulty Exec: the sampling statements run whatever their flag says.
ExecStatUnguarded(st, stmt, flags, e, nows) ==
    IF st.raised \/ (stmt.op # "stat" /\ ~flags[stmt.flag]) THEN st
    ELSE CASE stmt.op = "stat" -> LogStat(st, stmt.pitem, e)
           [] stmt.op = "log_inter" -> LogInter(st, nows[Len(st.reads) + 1])
           [] stmt.op = "log_intra" -> LogIntra(st, nows[Len(st.reads) + 1])
           [] stmt.op = "snap_intra" -> SnapIntra(st, nows[Len(st.reads) + 1])
           [] stmt.op = "snap_inter" -> SnapInter(st, nows[Len(st.reads) + 1])

\* A faulty Exec: the timestamps are recorded whatever their flag says.
ExecSnapUnguarded(st, stmt, flags, e, nows) ==
    IF st.raised
       \/ (stmt.op \notin {"snap_intra", "snap_inter"} /\ ~flags[stmt.flag])
    THEN st
    ELSE CASE stmt.op = "stat" -> LogStat(st, stmt.pitem, e)
           [] stmt.op = "log_inter" -> LogInter(st, nows[Len(st.reads) + 1])
           [] stmt.op = "log_intra" -> LogIntra(st, nows[Len(st.reads) + 1])
           [] stmt.op = "snap_intra" -> SnapIntra(st, nows[Len(st.reads) + 1])
           [] stmt.op = "snap_inter" -> SnapInter(st, nows[Len(st.reads) + 1])

\* A faulty Exec: the timing statements run although a query has failed.
ExecTimingAfterFailure(st, stmt, flags, e, nows) ==
    IF (st.raised /\ stmt.op = "stat") \/ ~flags[stmt.flag] THEN st
    ELSE CASE stmt.op = "stat" -> LogStat(st, stmt.pitem, e)
           [] stmt.op = "log_inter" -> LogInter(st, nows[Len(st.reads) + 1])
           [] stmt.op = "log_intra" -> LogIntra(st, nows[Len(st.reads) + 1])
           [] stmt.op = "snap_intra" -> SnapIntra(st, nows[Len(st.reads) + 1])
           [] stmt.op = "snap_inter" -> SnapInter(st, nows[Len(st.reads) + 1])

\* One statement.  nows[k] is what the k-th time.time() call of the hook
\* returns.  A statement after a raised exception does not run.
Exec(st, stmt, flags, e, nows) ==
    IF st.raised \/ ~flags[stmt.flag] THEN st
    ELSE CASE stmt.op = "stat" -> LogStat(st, stmt.pitem, e)
           [] stmt.op = "log_inter" -> LogInter(st, nows[Len(st.reads) + 1])
           [] stmt.op = "log_intra" -> LogIntra(st, nows[Len(st.reads) + 1])
           [] stmt.op = "snap_intra" -> SnapIntra(st, nows[Len(st.reads) + 1])
           [] stmt.op = "snap_inter" -> SnapInter(st, nows[Len(st.reads) + 1])

RECURSIVE Run(_, _, _, _, _)
Run(st, code, flags, e, nows) ==
    IF code = <<>> THEN st
    ELSE Run(Exec(st, Head(code), flags, e, nows), Tail(code), flags, e, nows)

\* What a completed batch hook leaves in the epoch's trace.
Event(h, st) ==
    [hook |-> h, step |-> st.step, reads |-> st.reads,
     inter |-> st.inter, intra |-> st.intra,
     snap_intra |-> st.snap_intra, snap_inter |-> st.snap_inter]

\* What on_train_epoch_start leaves in the trace.
EpochEvent ==
    [hook |-> "on_train_epoch_start", step |-> global_step, reads |-> <<>>,
     inter |-> None, intra |-> None, snap_intra |-> None, snap_inter |-> None]

\* The trace keeps the hook that ran before the last epoch start, the epoch
\* start, and the hooks after it; of more than five events, the last five.
Last5(t) == IF Len(t) > 5 THEN SubSeq(t, Len(t) - 4, Len(t)) ELSE t

Last1(t) == IF t = <<>> THEN t ELSE <<t[Len(t)]>>

LastRead(st) == IF st.reads = <<>> THEN clock ELSE st.reads[Len(st.reads)]

\* ------------------------------------------------------------------- host
\* The training loop calls the hooks in this order and stops at the first
\* exception a hook raises.
HostCalls(h) ==
    CASE h = "__init__" -> pc = "new"
      [] h = "on_train_start" -> pc = "constructed"
      [] h = "on_train_epoch_start" ->
             pc \in {"fit", "epoch"} /\ epochs < MaxEpochs
      [] h = "on_train_batch_start" -> pc = "epoch" /\ global_step < MaxSteps
      [] h = "on_train_batch_end" -> pc = "batch"
      [] OTHER -> FALSE

\* trainer.global_step after a step_end hook that ran as st: the training
\* loop counts a completed step.
HostAdvance(st) == IF st.raised THEN global_step ELSE global_step + 1

\* ---------------------------------------------------------------- actions
\* A faulty Construct: the nvidia-smi check is left out.
ConstructUnchecked ==
    /\ HostCalls("__init__")
    /\ hook' = "__init__"
    /\ log_stats' = args
    /\ pc' = "constructed"
    /\ UNCHANGED <<exc, tool_present, logger_present, args,
                   snap_intra_step_time, snap_inter_step_time, clock,
                   global_step, epochs, steps, sink, writes, trace, failAt,
                   sampling>>

\* GPUStatsMonitor.__init__
Construct ==
    /\ HostCalls("__init__")
    /\ hook' = "__init__"
    /\ IF tool_present
       THEN /\ log_stats' = args
            /\ pc' = "constructed"
            /\ exc' = exc
       ELSE /\ log_stats' = log_stats
            /\ pc' = "raised"
            /\ exc' = "MisconfigurationException"
    /\ UNCHANGED <<tool_present, logger_present, args, snap_intra_step_time,
                   snap_inter_step_time, clock, global_step, epochs, steps,
                   sink, writes, trace, failAt, sampling>>

on_train_start ==
    /\ HostCalls("on_train_start")
    /\ hook' = "on_train_start"
    /\ IF logger_present
       THEN pc' = "fit" /\ exc' = exc
       ELSE pc' = "raised" /\ exc' = "MisconfigurationException"
    /\ UNCHANGED <<tool_present, logger_present, args, monitor, clock,
                   global_step, epochs, steps, sink, writes, trace, failAt,
                   sampling>>

\* A faulty ResetSnaps: the step-end timestamp survives the epoch start.
ResetSnapsKeepsInter ==
    /\ snap_intra_step_time' = None
    /\ snap_inter_step_time' = snap_inter_step_time

\* the two assignments of on_train_epoch_start
ResetSnaps ==
    /\ snap_intra_step_time' = None
    /\ snap_inter_step_time' = None

on_train_epoch_start ==
    /\ HostCalls("on_train_epoch_start")
    /\ hook' = "on_train_epoch_start"
    /\ ResetSnaps
    /\ pc' = "epoch"
    /\ epochs' = epochs + 1
    /\ steps' = 0
    /\ writes' = 0
    /\ trace' = Append(Last1(trace), EpochEvent)
    /\ failAt' = 0
    /\ logged' = <<>>
    /\ queries' = 0
    /\ nlogged' = 0
    /\ nintra' = 0
    /\ ninter' = 0
    /\ UNCHANGED <<exc, tool_present, logger_present, args, log_stats, clock,
                   global_step, last_step, sampling>>

\* The subprocess.run calls a hook makes when none of them fails.
NumQueries(code, flags) ==
    Cardinality({i \in 1..Len(code) : code[i].op = "stat" /\ flags[code[i].flag]})

\* The environment's choices that make a difference to a hook call: a choice
\* the call never looks at is fixed, so that each outcome is produced once.
RelevantEnv(code, e) ==
    /\ e.failAt <= NumQueries(code, log_stats)
    /\ e.failAt = 0 => e.how = "CalledProcessError"
    /\ (e.failAt = 1 \/ NumQueries(code, log_stats) = 0) => e.resp = <<"x">>

\* st is the call as it ended: a time.time() call it never made returns
\* what the one before it returned.
RelevantNows(nows, st) ==
    /\ Len(st.reads) < 2 => nows[2] = nows[1]
    /\ Len(st.reads) < 1 => nows[1] = clock

\* A faulty Leave: a hook whose query failed switches the monitor off.
LeaveDisablesOnError(h, st) ==
    /\ hook' = h
    /\ logged' = st.logged
    /\ queries' = st.queries
    /\ nlogged' = nlogged + Len(st.logged)
    /\ nintra' = nintra + (IF st.intra = None THEN 0 ELSE 1)
    /\ ninter' = ninter + (IF st.inter = None THEN 0 ELSE 1)
    /\ last_step' = IF st.logged = <<>> THEN last_step
                    ELSE st.logged[Len(st.logged)].step
    /\ snap_intra_step_time' = st.snap_intra
    /\ snap_inter_step_time' = st.snap_inter
    /\ clock' = LastRead(st)
    /\ exc' = st.exc
    /\ trace' = IF st.raised THEN trace ELSE Last5(Append(trace, Event(h, st)))
    /\ log_stats' = IF st.raised THEN NoFlags ELSE log_stats
    /\ UNCHANGED <<tool_present, logger_present, args, epochs, sampling>>

\* What a batch hook that ran as st leaves behind.
Leave(h, st) ==
    /\ hook' = h
    /\ logged' = st.logged
    /\ queries' = st.queries
    /\ nlogged' = nlogged + Len(st.logged)
    /\ nintra' = nintra + (IF st.intra = None THEN 0 ELSE 1)
    /\ ninter' = ninter + (IF st.inter = None THEN 0 ELSE 1)
    /\ last_step' = IF st.logged = <<>> THEN last_step
                    ELSE st.logged[Len(st.logged)].step
    /\ snap_intra_step_time' = st.snap_intra
    /\ snap_inter_step_time' = st.snap_inter
    /\ clock' = LastRead(st)
    /\ exc' = st.exc
    /\ trace' = IF st.raised THEN trace ELSE Last5(Append(trace, Event(h, st)))
    /\ UNCHANGED <<tool_present, logger_present, args, log_stats, epochs,
                   sampling>>

\* The sampling statements do not read the clock, so they are run once for
\* every pair of clock values: s0 is the call after them, st the call as it
\* ended (each bound as a value, so that it is computed once).
on_train_batch_start ==
    /\ HostCalls("on_train_batch_start")
    /\ \E e \in Envs :
         /\ RelevantEnv(BatchStartCode, e)
         /\ \E s0 \in {Run(Enter(global_step), BatchStartSampling, log_stats,
                          e, <<>>)} :
                \E now1 \in clock..MaxTime :
                  \E now2 \in now1..MaxTime :
                    \E st \in {Run(s0, BatchStartTiming, log_stats, e,
                                  <<now1, now2>>)} :
                        /\ RelevantNows(<<now1, now2>>, st)
                        /\ Leave("on_train_batch_start", st)
                        /\ failAt' = e.failAt
                        /\ pc' = IF st.raised THEN "raised" ELSE "batch"
                        /\ writes' = st.writes
                        /\ UNCHANGED <<global_step, steps>>

on_train_batch_end ==
    /\ HostCalls("on_train_batch_end")
    /\ \E e \in Envs :
         /\ RelevantEnv(BatchEndCode, e)
         /\ \E s0 \in {Run(Enter(global_step), BatchEndSampling, log_stats,
                          e, <<>>)} :
                \E now1 \in clock..MaxTime :
                  \E now2 \in now1..MaxTime :
                    \E st \in {Run(s0, BatchEndTiming, log_stats, e,
                                  <<now1, now2>>)} :
                        /\ RelevantNows(<<now1, now2>>, st)
                        /\ Leave("on_train_batch_end", st)
                        /\ failAt' = e.failAt
                        /\ pc' = IF st.raised THEN "raised" ELSE "epoch"
                        /\ writes' = writes + st.writes
                        /\ global_step' = HostAdvance(st)
                        /\ steps' = IF st.raised THEN steps ELSE steps + 1

NoQuery == [resp |-> <<>>, failAt |-> 0, how |-> "none"]
NoStat == [sampled |-> FALSE]

Init ==
    /\ pc = "new"
    /\ exc = "none"
    /\ tool_present \in BOOLEAN
    /\ logger_present \in BOOLEAN
    /\ args \in FlagSets
    /\ log_stats = NoFlags
    /\ snap_intra_step_time = None
    /\ snap_inter_step_time = None
    /\ clock = 0
    /\ global_step = 0
    /\ epochs = 0
    /\ steps = 0
    /\ hook = "none"
    /\ logged = <<>>
    /\ queries = 0
    /\ nlogged = 0
    /\ nintra = 0
    /\ ninter = 0
    /\ last_step = None
    /\ writes = 0
    /\ trace = <<>>
    /\ failAt = 0
    /\ query = NoQuery
    /\ stat = NoStat

Next ==
    \/ Construct
    \/ on_train_start
    \/ on_train_epoch_start
    \/ on_train_batch_start
    \/ on_train_batch_end

Spec == Init /\ [][Next]_vars

\* ------------------------------------------------ sampling specification
\* One call of on_train_batch_end with every flag set, in the middle of an
\* epoch, for every text of at most MaxLen characters the queries may answer
\* and for every query that may fail.
AllFlags == [f \in FlagNames |-> TRUE]

Texts == UNION {[1..n -> Chars] : n \in 0..MaxLen}

SampleEnvs ==
    {[resp |-> t, failAt |-> 0, how |-> "CalledProcessError"] : t \in Texts}
    \cup {e \in Envs : e.failAt > 0}

InitSample ==
    /\ pc = "batch"
    /\ exc = "none"
    /\ tool_present = TRUE
    /\ logger_present = TRUE
    /\ args = AllFlags
    /\ log_stats = AllFlags
    /\ snap_intra_step_time = None
    /\ snap_inter_step_time = None
    /\ clock = 0
    /\ global_step = 0
    /\ epochs = 1
    /\ steps = 0
    /\ hook = "on_train_batch_start"
    /\ logged = <<>>
    /\ queries = 0
    /\ nlogged = 0
    /\ nintra = 0
    /\ ninter = 0
    /\ last_step = None
    /\ writes = 0
    /\ trace = <<>>
    /\ failAt = 0
    /\ query \in SampleEnvs
    /\ stat = NoStat

Sample ==
    /\ ~stat.sampled
    /\ stat' = [sampled |-> TRUE,
                st |-> Run(Enter(global_step), BatchEndCode, log_stats, query,
                           <<clock, clock>>)]
    /\ UNCHANGED <<pc, exc, tool_present, logger_present, args, monitor, clock,
                   global_step, epochs, steps, hook, sink, writes, trace,
                   failAt, query>>

SpecSample == InitSample /\ [][Sample]_vars

\* ------------------------------------------------------------ properties
InterName == "batch_time/inter_step (ms)"
IntraName == "batch_time/intra_step (ms)"

BothTiming == log_stats.intra_step_time /\ log_stats.inter_step_time

\* a hook of the trace that read the clock, and read t every time
At(ev, t) == ev.reads # <<>> /\ \A i \in 1..Len(ev.reads) : ev.reads[i] = t

\* the trace is epoch_start, step_start, step_end, step_start, step_end
TwoStepEpoch ==
    /\ Len(trace) = 5
    /\ trace[1].hook = "on_train_epoch_start"
    /\ trace[2].hook = "on_train_batch_start"
    /\ trace[3].hook = "on_train_batch_end"
    /\ trace[4].hook = "on_train_batch_start"
    /\ trace[5].hook = "on_train_batch_end"

\* C1: with both timing flags on, the hooks epoch_start, step_start at t0,
\* step_end at t1, step_start at t2, step_end at t3 emit intra-step records
\* (t1-t0)*1000 and (t3-t2)*1000 and the inter-step record (t2-t1)*1000, for
\* every t0 <= t1 <= t2 <= t3.
C1_TimingSequence ==
    \A t0, t1, t2, t3 \in 0..MaxTime :
        (/\ BothTiming
         /\ TwoStepEpoch
         /\ At(trace[2], t0) /\ At(trace[3], t1)
         /\ At(trace[4], t2) /\ At(trace[5], t3))
        => /\ trace[3].intra = (t1 - t0) * 1000
           /\ trace[5].intra = (t3 - t2) * 1000
           /\ trace[4].inter = (t2 - t1) * 1000

\* C2: the first step_start after an epoch_start emits no inter-step record,
\* whatever ran before the epoch_start; an inter-step record is computed from
\* the step-end timestamp of the step_end that ran just before, in the same
\* epoch.
C2_NoInterAcrossEpochs ==
    /\ (pc = "batch" /\ steps = 0)
       => /\ \A i \in 1..Len(logged) : InterName \notin DOMAIN logged[i].metrics
          /\ ninter = 0
    /\ \A i \in 2..Len(trace) :
         (trace[i].hook = "on_train_batch_start" /\ trace[i].inter # None)
         => (/\ trace[i - 1].hook = "on_train_batch_end"
             /\ trace[i - 1].snap_inter # None
             /\ trace[i].inter =
                    (trace[i].reads[1] - trace[i - 1].snap_inter) * 1000)

\* C2 witness: an earlier epoch left a step-end timestamp that counts as
\* present, and the first step_start of the next epoch has run with inter-step
\* timing on.
C2_Witness ==
    /\ pc = "batch" /\ steps = 0 /\ epochs = 2
    /\ log_stats.inter_step_time
    /\ Len(trace) = 3
    /\ trace[1].hook = "on_train_batch_end"
    /\ Truthy(trace[1].snap_inter)
    /\ trace[2].hook = "on_train_epoch_start"
    /\ trace[3].hook = "on_train_batch_start"

\* C3: with all six flags off no hook calls the sink or runs a query: the
\* number of emitted records stays zero.
C3_AllOffSilent ==
    (\A f \in FlagNames : ~args[f])
    => /\ logged = <<>>
       /\ queries = 0
       /\ nlogged = 0 /\ nintra = 0 /\ ninter = 0
       /\ \A i \in 1..Len(trace) :
            trace[i].inter = None /\ trace[i].intra = None

\* C3 witness: an epoch of MaxSteps steps has run with every flag off.
C3_Witness ==
    /\ \A f \in FlagNames : ~args[f]
    /\ pc = "epoch" /\ hook = "on_train_batch_end"
    /\ steps = MaxSteps

\* The name the naming convention gives device i of a field.
NameOf(field, unit, i) ==
    "gpu_" \o field \o "/gpu_id_" \o ToString(i) \o " (" \o unit \o ")"

\* The lines of a text: what stands between its line breaks; a line break at
\* the very end ends the last line and starts no new one.
TextLines(t) ==
    LET p == split(t, "\n")
    IN  IF p[Len(p)] = <<>> THEN SubSeq(p, 1, Len(p) - 1) ELSE p

\* N >= 1 lines that each parse as a number
WellFormed(t) ==
    /\ Len(TextLines(t)) >= 1
    /\ \A i \in 1..Len(TextLines(t)) : IsFloat(TextLines(t)[i])

\* d maps exactly the names of devices 0..Len(values)-1 of the field, in
\* order, to the values
IsReading(d, field, values) ==
    /\ Cardinality(DOMAIN d) = Len(values)
    /\ \A i \in 1..Len(values) :
         /\ NameOf(field, Unit(field), i - 1) \in DOMAIN d
         /\ d[NameOf(field, Unit(field), i - 1)] = values[i]

\* the batch a completed hook call emitted for a field, if any
BatchesOf(st, field) ==
    {i \in 1..Len(st.logged) :
        \E n \in DOMAIN st.logged[i].metrics :
            \E k \in 0..MaxLen : n = NameOf(field, Unit(field), k)}

\* C4: a successful query whose output is N >= 1 lines that each parse as a
\* number yields exactly N entries, the i-th line's value under the name of
\* device i-1, in output order.
C4_WellFormedSample ==
    (stat.sampled /\ query.failAt = 0 /\ WellFormed(query.resp))
    => LET lines == TextLines(query.resp)
           values == [i \in 1..Len(lines) |-> float(lines[i])]
       IN  /\ ~stat.st.raised
           /\ \A f \in Fields :
                /\ Cardinality(BatchesOf(stat.st, f)) = 1
                /\ \A i \in BatchesOf(stat.st, f) :
                     IsReading(stat.st.logged[i].metrics, f, values)

\* C4 witness: the queries answered with three lines, one number each.
C4_Witness ==
    /\ stat.sampled /\ query.failAt = 0
    /\ query.resp = <<"1", "\n", "2", "\n", "1">>
    /\ Len(stat.st.logged) = 7

\* C5 as stated: a successful query whose output is empty, or has a line
\* that does not parse as a number, yields exactly one entry, device 0 with
\* value 0, raises nothing, and the hook goes on and emits it.
C5_AnyBadLineFallsBack ==
    (/\ stat.sampled /\ query.failAt = 0
     /\ \/ query.resp = <<>>
        \/ \E i \in 1..Len(TextLines(query.resp)) :
               ~IsFloat(TextLines(query.resp)[i]))
    => /\ ~stat.st.raised
       /\ \A f \in Fields :
            /\ Cardinality(BatchesOf(stat.st, f)) = 1
            /\ \A i \in BatchesOf(stat.st, f) :
                 IsReading(stat.st.logged[i].metrics, f, <<0>>)

\* C5 as amended: the same for an output that, with the white space at its
\* start and end removed, is empty or has a line that does not parse as a
\* number; the hook then runs to its end.
C5_BadLineAfterStripFallsBack ==
    (/\ stat.sampled /\ query.failAt = 0
     /\ \/ strip(query.resp) = <<>>
        \/ \E i \in 1..Len(TextLines(strip(query.resp))) :
               ~IsFloat(TextLines(strip(query.resp))[i]))
    => /\ ~stat.st.raised
       /\ Len(stat.st.logged) = 7
       /\ stat.st.snap_inter = clock
       /\ \A f \in Fields :
            /\ Cardinality(BatchesOf(stat.st, f)) = 1
            /\ \A i \in BatchesOf(stat.st, f) :
                 IsReading(stat.st.logged[i].metrics, f, <<0>>)

\* C5 witness: a line that parses, then one that does not.
C5_Witness ==
    /\ stat.sampled /\ query.failAt = 0
    /\ query.resp = <<"2", "\n", "x", "\n">>
    /\ Len(stat.st.logged) = 7
    /\ ~stat.st.raised

BatchHooks == {"on_train_batch_start", "on_train_batch_end"}

CodeOf(h) ==
    IF h = "on_train_batch_start" THEN BatchStartCode ELSE BatchEndCode

\* the queries a hook makes under the flags, in order
QueriesOf(h) ==
    SelectSeq(CodeOf(h), LAMBDA stmt : stmt.op = "stat" /\ log_stats[stmt.flag])

\* C6: a query that cannot be started or exits non-zero ends the enclosing
\* step hook with that error: the hook's caller sees it, the failed query
\* has produced no batch (no zero fallback) and was run once, and nothing was
\* emitted after it.
C6_FailurePropagates ==
    failAt > 0
    => /\ hook \in BatchHooks
       /\ pc = "raised"
       /\ exc \in Failures
       /\ queries = failAt
       /\ Len(logged) = failAt - 1
       /\ \A i \in 1..Len(logged) :
            /\ InterName \notin DOMAIN logged[i].metrics
            /\ IntraName \notin DOMAIN logged[i].metrics
            /\ \A k \in 0..MaxLen :
                 NameOf(QueriesOf(hook)[failAt].pitem,
                        Unit(QueriesOf(hook)[failAt].pitem), k)
                     \notin DOMAIN logged[i].metrics

\* C6 witness: the third query of a step_end hook could not be started.
C6_Witness ==
    /\ failAt = 3 /\ hook = "on_train_batch_end"
    /\ exc = "OSError" /\ pc = "raised"
    /\ Len(logged) = 2

\* C7: the query tool is checked when the monitor is constructed and the sink
\* at train start, each a fatal configuration error, and nowhere else: after
\* a failed check no epoch_start, step_start or step_end runs and nothing is
\* emitted.
C7_SetupChecks ==
    /\ exc = "MisconfigurationException"
       => /\ pc = "raised"
          /\ hook \in {"__init__", "on_train_start"}
          /\ epochs = 0 /\ trace = <<>>
          /\ logged = <<>> /\ queries = 0 /\ nlogged = 0
    /\ (~tool_present /\ hook # "none")
       => hook = "__init__" /\ exc = "MisconfigurationException"
    /\ (tool_present /\ ~logger_present /\ hook \notin {"none", "__init__"})
       => hook = "on_train_start" /\ exc = "MisconfigurationException"
    /\ (hook \in BatchHooks \cup {"on_train_epoch_start"} \/ nlogged > 0)
       => tool_present /\ logger_present

\* C7 witness: the monitor was constructed and train start found no sink.
C7_Witness ==
    /\ tool_present /\ ~logger_present
    /\ hook = "on_train_start" /\ pc = "raised"
    /\ exc = "MisconfigurationException"

Bit(b) == IF b THEN 1 ELSE 0

snaps == <<snap_intra_step_time, snap_inter_step_time>>

\* C8 as stated: a completed step has written the timing state exactly twice.
C8_TwoWritesPerStep ==
    (pc = "epoch" /\ hook = "on_train_batch_end") => writes = 2

\* C8 as amended: step_start writes last-step-start once if intra_step_time
\* is on and writes nothing otherwise, step_end writes last-step-end once if
\* inter_step_time is on and writes nothing otherwise (twice per step when
\* both are on); only these two hooks and epoch_start write the timing state.
C8_WritesFollowFlags ==
    [][/\ (pc = "epoch" /\ pc' = "batch")
          => /\ writes' = Bit(log_stats.intra_step_time)
             /\ snap_inter_step_time' = snap_inter_step_time
             /\ ~log_stats.intra_step_time
                => snap_intra_step_time' = snap_intra_step_time
       /\ (pc = "batch" /\ pc' = "epoch")
          => /\ writes' = Bit(log_stats.intra_step_time)
                          + Bit(log_stats.inter_step_time)
             /\ snap_intra_step_time' = snap_intra_step_time
             /\ ~log_stats.inter_step_time
                => snap_inter_step_time' = snap_inter_step_time
       /\ snaps' # snaps
          => hook' \in BatchHooks \cup {"on_train_epoch_start"}
      ]_vars

\* C8 witness: a step has completed with intra-step timing on and inter-step
\* timing off, and so with one write.
C8_Witness ==
    /\ pc = "epoch" /\ hook = "on_train_batch_end"
    /\ log_stats.intra_step_time /\ ~log_stats.inter_step_time
    /\ writes = 1
    /\ snap_intra_step_time # None /\ snap_inter_step_time = None

\* C9: after N >= 1 completed steps of an epoch with both timing flags on,
\* N intra-step and N-1 inter-step records have been emitted, whatever the
\* timestamps; every intra-step record is taken from the start timestamp of
\* its own step.
C9_TimingCounts ==
    (BothTiming /\ pc = "epoch" /\ steps >= 1)
    => /\ nintra = steps
       /\ ninter = steps - 1
       /\ \A i \in 2..Len(trace) :
            trace[i].hook = "on_train_batch_end"
            => trace[i].intra =
                   (trace[i].reads[Len(trace[i].reads)]
                    - trace[i - 1].snap_intra) * 1000

\* C10: a hook uses one instant for its timing actions, so that for steps k
\* and k+1 of an epoch intra(k) + inter(k+1) = (start(k+1) - start(k)) * 1000.
C10_OneInstantPerHook ==
    /\ \A i \in 1..Len(trace) :
         \A j, k \in 1..Len(trace[i].reads) :
             trace[i].reads[j] = trace[i].reads[k]
    /\ \A i \in 3..Len(trace) :
         (/\ BothTiming
          /\ trace[i - 2].hook = "on_train_batch_start"
          /\ trace[i - 1].hook = "on_train_batch_end"
          /\ trace[i].hook = "on_train_batch_start"
          /\ trace[i - 1].intra # None
          /\ trace[i].inter # None)
         => trace[i - 1].intra + trace[i].inter
                = (trace[i].snap_intra - trace[i - 2].snap_intra) * 1000

\* The batches step_start emits under the flags, in order, when a previous
\* step-end exists or not: a field stands for the batch of its readings, a
\* timing name for the timing record.
ExpectedStart(flags, prevEnd) ==
    (IF flags.gpu_utilization THEN <<"utilization.gpu">> ELSE <<>>)
    \o (IF flags.memory_utilization
        THEN <<"memory.used", "memory.free", "utilization.memory">>
        ELSE <<>>)
    \o (IF flags.inter_step_time /\ prevEnd THEN <<InterName>> ELSE <<>>)

\* The batches step_end emits under the flags, in order.
ExpectedEnd(flags, started) ==
    (IF flags.gpu_utilization THEN <<"utilization.gpu">> ELSE <<>>)
    \o (IF flags.memory_utilization
        THEN <<"memory.used", "memory.free", "utilization.memory">>
        ELSE <<>>)
    \o (IF flags.fan_speed THEN <<"fan.speed">> ELSE <<>>)
    \o (IF flags.temperature
        THEN <<"temperature.gpu", "temperature.memory">>
        ELSE <<>>)
    \o (IF flags.intra_step_time /\ started THEN <<IntraName>> ELSE <<>>)

\* d is a batch of that kind: the timing record alone, or readings of the
\* field's devices and nothing else
IsBatchOf(d, kind) ==
    IF kind \in {InterName, IntraName}
    THEN DOMAIN d = {kind}
    ELSE /\ DOMAIN d # {}
         /\ \A n \in DOMAIN d :
              \E k \in 0..MaxLen : n = NameOf(kind, Unit(kind), k)

\* the sink calls are, one for one and in order, batches of these kinds
Emits(calls, kinds) ==
    /\ Len(calls) = Len(kinds)
    /\ \A i \in 1..Len(calls) : IsBatchOf(calls[i].metrics, kinds[i])

\* once a prefix of the hook's statements has read the clock, the rest of the
\* hook runs no query
SamplingBeforeClock(h) ==
    LET e == [resp |-> <<"x">>, failAt |-> 0, how |-> "CalledProcessError"]
        nows == <<clock, clock>>
    IN  \A i \in 0..Len(CodeOf(h)) :
            \E a \in {Run(Enter(global_step), SubSeq(CodeOf(h), 1, i),
                          log_stats, e, nows)} :
                a.reads # <<>>
                => Run(a, SubSeq(CodeOf(h), i + 1, Len(CodeOf(h))),
                       log_stats, e, nows).queries = a.queries

\* C11: the sink calls of a completed hook are fixed by the flags: step_start
\* emits utilization.gpu; memory.used, memory.free, utilization.memory; then
\* the inter-step record if enabled and a previous step-end exists; step_end
\* emits utilization.gpu; the three memory batches; fan.speed; the two
\* temperature batches; then the intra-step record; every query of a hook
\* precedes its clock reads, and epoch_start emits nothing.
C11_SinkOrder ==
    [][/\ (pc = "epoch" /\ pc' = "batch")
          => /\ Emits(logged', ExpectedStart(log_stats,
                                             snap_inter_step_time # None))
             /\ SamplingBeforeClock("on_train_batch_start")
       /\ (pc = "batch" /\ pc' = "epoch")
          => /\ Emits(logged', ExpectedEnd(log_stats,
                                           snap_intra_step_time # None))
             /\ SamplingBeforeClock("on_train_batch_end")
       /\ hook' = "on_train_epoch_start" => logged' = <<>> /\ nlogged' = 0
      ]_vars

\* the steps of a sequence of sink calls
StepsOf(calls) == [i \in 1..Len(calls) |-> calls[i].step]

\* C12: every batch a step_start or step_end call emits, device readings and
\* timing records alike, reaches the sink with the step index of that call;
\* the step index never decreases, and so neither do the steps the sink
\* receives, within a hook and from one hook to the next.
C12_StepOfCall ==
    [][/\ hook' \in BatchHooks
          => /\ \A i \in 1..Len(logged') : logged'[i].step = global_step
             /\ (last_step # None /\ logged' # <<>>)
                => last_step <= logged'[1].step
             /\ \A i, j \in 1..Len(logged') :
                  i <= j => logged'[i].step <= logged'[j].step
             /\ logged' # <<>>
                => last_step' = logged'[Len(logged')].step
       /\ global_step <= global_step'
      ]_vars

\* C12 witness: the step_start hook of the second step of the run has emitted
\* device readings and an inter-step record, after the sink received step 0.
C12_Witness ==
    /\ hook = "on_train_batch_start" /\ pc = "batch"
    /\ global_step = 1 /\ last_step = 1
    /\ Len(logged) >= 2
    /\ InterName \in DOMAIN logged[Len(logged)].metrics
    /\ \E i \in 1..Len(trace) : trace[i].step = 0

\* C13: the six flags are set at construction and no hook and no sampling
\* call changes them, whether it succeeds or fails: once the monitor is
\* constructed the flags are the constructor's arguments in every state, and
\* no step other than the construction changes them.
C13_FlagsFrozen ==
    /\ (pc # "new" /\ tool_present) => log_stats = args
    /\ \A f \in FlagNames : log_stats[f] => args[f]

\* C13 witness: in the second epoch a query of a step_end hook failed, after
\* completed hooks that emitted timing records and device readings.
C13_Witness ==
    /\ pc = "raised" /\ failAt > 0 /\ hook = "on_train_batch_end"
    /\ epochs = 2 /\ global_step = 1
    /\ log_stats = args
    /\ log_stats.temperature /\ log_stats.inter_step_time
    /\ ~log_stats.gpu_utilization

\* C14: when the k-th query of a step_start or step_end call fails, the sink
\* has received the batches of the first k-1 queries, in order, and keeps
\* them; the hook emits no later batch and no timing record, and leaves both
\* timestamps as they were before the call.
C14_FailureMidHook ==
    [][failAt' > 0
       => /\ hook' \in BatchHooks
          /\ Len(logged') = failAt' - 1
          /\ \A i \in 1..Len(logged') :
               /\ IsBatchOf(logged'[i].metrics, QueriesOf(hook')[i].pitem)
               /\ logged'[i].step = global_step
          /\ nlogged' = nlogged + failAt' - 1
          /\ nintra' = nintra /\ ninter' = ninter
          /\ snap_intra_step_time' = snap_intra_step_time
          /\ snap_inter_step_time' = snap_inter_step_time
      ]_vars

\* C14 witness: with both timing flags on and a step-end timestamp that counts
\* as present, the third query of the next step_start failed after two batches.
C14_Witness ==
    /\ pc = "raised" /\ failAt = 3 /\ hook = "on_train_batch_start"
    /\ BothTiming
    /\ steps = 1
    /\ Truthy(snap_inter_step_time) /\ Truthy(snap_intra_step_time)
    /\ Len(logged) = 2 /\ nlogged > 2

\* the batch hook the training loop calls next
NextHook == IF pc = "epoch" THEN "on_train_batch_start" ELSE "on_train_batch_end"

Answers == [resp |-> <<"x">>, failAt |-> 0, how |-> "CalledProcessError"]

\* The next hook run twice from the present state, its queries answered and
\* its clock reads returning now1 <= now2: as it is, and with the flag `off`
\* turned off and that flag's slot absent.  The second run reads the clock
\* once, at the statement of the flag `kept`, where it reads what the first
\* run read there.  Both runs give the same record and timestamp of `kept`.
SameWithout(off, kept, now1, now2) ==
    \E A \in {Run(Enter(global_step), CodeOf(NextHook), log_stats, Answers,
                  <<now1, now2>>)} :
      \E at \in {IF A.reads = <<>> THEN now1
                  ELSE IF kept = "intra_step_time" THEN A.reads[Len(A.reads)]
                  ELSE A.reads[1]} :
        \E B \in {Run(IF off = "inter_step_time"
                       THEN [Enter(global_step) EXCEPT !.snap_inter = None]
                       ELSE [Enter(global_step) EXCEPT !.snap_intra = None],
                       CodeOf(NextHook),
                       [log_stats EXCEPT ![off] = FALSE], Answers,
                       <<at, at>>)} :
            IF kept = "intra_step_time"
            THEN /\ B.intra = A.intra
                 /\ B.snap_intra = A.snap_intra
                 /\ B.inter = None /\ B.snap_inter = None
            ELSE /\ B.inter = A.inter
                 /\ B.snap_inter = A.snap_inter
                 /\ B.intra = None /\ B.snap_intra = None

\* C15: after an epoch_start, last-step-start is absent whenever
\* intra_step_time is off and last-step-end whenever inter_step_time is off;
\* an intra-step record is emitted only with intra_step_time on and an
\* inter-step record only with inter_step_time on; and the next hook emits
\* the same records of one timing flag, with the same values, and records the
\* same timestamp, when the other timing flag is turned off.
C15_TimingFlagsIndependent ==
    (epochs >= 1 /\ pc \in {"epoch", "batch", "raised"})
    => /\ ~log_stats.intra_step_time
          => /\ snap_intra_step_time = None
             /\ nintra = 0
             /\ \A i \in 1..Len(logged) :
                  IntraName \notin DOMAIN logged[i].metrics
       /\ ~log_stats.inter_step_time
          => /\ snap_inter_step_time = None
             /\ ninter = 0
             /\ \A i \in 1..Len(logged) :
                  InterName \notin DOMAIN logged[i].metrics
       /\ pc \in {"epoch", "batch"}
          => \A now1 \in clock..MaxTime : \A now2 \in now1..MaxTime :
                /\ SameWithout("inter_step_time", "intra_step_time",
                               now1, now2)
                /\ SameWithout("intra_step_time", "inter_step_time",
                               now1, now2)

\* C15 witness: with inter-step timing on and intra-step timing off, the
\* second step_start of an epoch has emitted an inter-step record.
C15_Witness ==
    /\ pc = "batch" /\ steps = 1 /\ hook = "on_train_batch_start"
    /\ log_stats.inter_step_time /\ ~log_stats.intra_step_time
    /\ ninter = 1 /\ nintra = 0
    /\ Truthy(snap_inter_step_time) /\ snap_intra_step_time = None

====
